---------------------------- MODULE Spec2Model ----------------------------
(***************************************************************************)
(* Command-Processor: command-line parsing and dispatch library (comp::).  *)
(*                                                                         *)
(* The repository holds several revisions of the one header:               *)
(*   - src/unnamed/part_000, lines 535-1234: the CommandParser-based       *)
(*     revision (Commander owns a CommandParser, StatusHandler::handle     *)
(*     returns int32_t);                                                   *)
(*   - src/unnamed/part_000, lines 1-534: the CommandArgs-based revision   *)
(*     (CommandArgs::parse with the "unknown" option);                     *)
(*   - src/src/CommandProcessor.hpp, lines 724-1247: the first revision    *)
(*     (CommandArgs::parse stores inline values under the command name).   *)
(*                                                                         *)
(* A std::string is a sequence of atoms; an atom is a run of characters    *)
(* without a space, or the single space SP.  Concatenation of strings is   *)
(* \o, so that the space-join the parsers build is computed, not assumed.  *)
(***************************************************************************)
EXTENDS Integers, Sequences, FiniteSets, TLC

VARIABLES
  revision,     \* which revision of Commander is built: "CommandArgs" | "CommandParser"
  m_args,       \* Commander::m_args
  m_commands,   \* Commander::m_commands: command name -> CommandCaller
  m_parser,     \* Commander::m_parser (CommandParser revision): [m_args, m_commands, m_configs]
  m_handler,    \* Commander::m_handler: the StatusHandler member, held by value
  host,         \* the handler object the host passed to setHandler (NoHost before)
  events,       \* what the last API call did, in order: parse / invoke / handle events
  outcome,      \* how the last run or invokeCommand call ended ("none" after any other call)
  runs,         \* number of Commander::run calls made
  config,       \* parser harness: the CommandConfig under test
  segment,      \* parser harness: the token segment under test
  parsed        \* parser harness: result of the last parse

vars == <<revision, m_args, m_commands, m_parser, m_handler, host, events,
          outcome, runs, config, segment, parsed>>

commanderVars == <<revision, m_args, m_commands, m_parser, m_handler, host,
                   events, outcome, runs>>

harnessVars == <<config, segment, parsed>>

-----------------------------------------------------------------------------
(* Bounds *)

\* longest token sequence given to a Commander
MaxArgs == 3

\* number of Commander::run calls explored
MaxRuns == 2

\* longest token segment given to the parser harness
MaxSegLen == 4

\* largest argSize of an option in the harness configurations
MaxArity == 2

-----------------------------------------------------------------------------
(* Strings and tokens *)

SP == " "

CMD1 == <<"cmd1">>

CMD2 == <<"cmd2">>

OPT_O == <<"--o">>

OPT_P == <<"--p">>

VAL_V == <<"v">>

\* the literal "unknown": name of unk_opt and of the leading pseudo-command
UNKNOWN == <<"unknown">>

\* std::numeric_limits<size_t>::max(), cut to the range of TLC's integers
SIZE_MAX == 2147483647

RECURSIVE SeqsUpTo(_, _)
SeqsUpTo(S, n) ==
  IF n = 0 THEN {<<>>}
  ELSE LET shorter == SeqsUpTo(S, n - 1)
       IN shorter \cup {Append(s, t) : s \in {x \in shorter : Len(x) = n - 1}, t \in S}

\* std::string::pop_back
pop_back(s) == SubSeq(s, 1, Len(s) - 1)

-----------------------------------------------------------------------------
(* Option, CommandConfig *)

\* Option(Name): m_variadicSize(false), m_argSize(0), then the fluent setters
Option(name, argSize, variadicSize) ==
  [name |-> name, argSize |-> argSize, variadicSize |-> variadicSize]

\* an unk_opt that keys loose tokens by the command name, as the first
\* revision does
unk_opt_commandName == Option(CMD1, SIZE_MAX, TRUE)

\* the local unk_opt of the parsers
unk_opt == Option(UNKNOWN, SIZE_MAX, TRUE)

\* a null CommandConfig::Ptr
nullptr == [null |-> TRUE]

\* CommandConfig: m_name and m_options (keyed by the option's name)
CommandConfig(name, options) == [name |-> name, options |-> options]

\* CommandConfig::has
CommandConfig_has(conf, name) == name \in DOMAIN conf.options

\* conf && conf->has(name), on a CommandConfig::Ptr
Ptr_has(conf, name) == conf /= nullptr /\ CommandConfig_has(conf, name)

\* the std::runtime_error messages
NotEnoughArguments(key) == <<"not enough arguments \"">> \o key \o <<"\"">>

UnexpectedValue(tok) == <<"unexpected value \"">> \o tok \o <<"\"">>

KeyNotFound(name) == <<"key \"">> \o name \o <<"\" not found">>

NotACommand == <<"not a command">>

\* an insertion that keeps the value a key already has
Insert_keepFirst(table, key, val) == table @@ (key :> val)

\* std::unordered_map operator[] assignment
Insert(table, key, val) == (key :> val) @@ table

EmptyTable == <<>>

-----------------------------------------------------------------------------
(* CommandArgs::parse, CommandArgs-based revision (part_000:359-400) *)

\* ConsumeValues without the cap: every token up to the next key is consumed,
\* whatever argSize is
RECURSIVE ConsumeValues_uncapped(_, _, _, _, _, _)
ConsumeValues_uncapped(conf, args, i, argSize, count, val) ==
  IF i <= Len(args) /\ ~Ptr_has(conf, args[i])
  THEN ConsumeValues_uncapped(conf, args, i + 1, argSize, count + 1, val \o args[i] \o <<SP>>)
  ELSE [i |-> i, count |-> count, val |-> val]

\* ConsumeValues without the test for the next key: values are consumed up to
\* argSize whatever they are
RECURSIVE ConsumeValues_pastKeys(_, _, _, _, _, _)
ConsumeValues_pastKeys(conf, args, i, argSize, count, val) ==
  IF i <= Len(args) /\ count < argSize
  THEN ConsumeValues_pastKeys(conf, args, i + 1, argSize, count + 1, val \o args[i] \o <<SP>>)
  ELSE [i |-> i, count |-> count, val |-> val]

\* the inner while loop: consume values while the next token is no property
\* and count < argSize; yields the index reached, the count and val
RECURSIVE ConsumeValues(_, _, _, _, _, _)
ConsumeValues(conf, args, i, argSize, count, val) ==
  IF i <= Len(args) /\ ~Ptr_has(conf, args[i]) /\ count < argSize
  THEN ConsumeValues(conf, args, i + 1, argSize, count + 1, val \o args[i] \o <<SP>>)
  ELSE [i |-> i, count |-> count, val |-> val]

\* CommandArgs::parse whose loop skips the command token also when the
\* configuration declares an option of that name
RECURSIVE CommandArgs_parse_loop_skipDeclared(_, _, _, _)
CommandArgs_parse_loop_skipDeclared(m_config, args, i, m_argTable) ==
  IF i > Len(args) THEN [ok |-> TRUE, argTable |-> m_argTable]
  ELSE IF args[i] = m_config.name
  THEN CommandArgs_parse_loop_skipDeclared(m_config, args, i + 1, m_argTable)
  ELSE
    LET isProperty == CommandConfig_has(m_config, args[i])
        key == IF isProperty THEN args[i] ELSE unk_opt.name
        j == IF isProperty THEN i + 1 ELSE i
        option == IF CommandConfig_has(m_config, key) THEN m_config.options[key] ELSE unk_opt
        c == ConsumeValues(m_config, args, j, option.argSize, 0, <<>>)
        val == IF c.val /= <<>> THEN pop_back(c.val) ELSE c.val
    IN IF c.count < option.argSize /\ ~option.variadicSize
       THEN [ok |-> FALSE, what |-> NotEnoughArguments(key)]
       ELSE CommandArgs_parse_loop_skipDeclared(m_config, args, c.i, Insert(m_argTable, key, val))

RECURSIVE CommandArgs_parse_loop(_, _, _, _)
CommandArgs_parse_loop(m_config, args, i, m_argTable) ==
  IF i > Len(args) THEN [ok |-> TRUE, argTable |-> m_argTable]
  ELSE IF args[i] = m_config.name /\ ~CommandConfig_has(m_config, args[i])
  THEN CommandArgs_parse_loop(m_config, args, i + 1, m_argTable)
  ELSE
    LET isProperty == CommandConfig_has(m_config, args[i])
        key == IF isProperty THEN args[i] ELSE unk_opt.name
        j == IF isProperty THEN i + 1 ELSE i
        option == IF CommandConfig_has(m_config, key) THEN m_config.options[key] ELSE unk_opt
        c == ConsumeValues(m_config, args, j, option.argSize, 0, <<>>)
        val == IF c.val /= <<>> THEN pop_back(c.val) ELSE c.val
    IN IF c.count < option.argSize /\ ~option.variadicSize
       THEN [ok |-> FALSE, what |-> NotEnoughArguments(key)]
       ELSE CommandArgs_parse_loop(m_config, args, c.i, Insert(m_argTable, key, val))

\* CommandArgs(args, config): the constructor runs parse(args)
CommandArgs_parse(m_config, args) ==
  LET r == CommandArgs_parse_loop(m_config, args, 1, EmptyTable)
  IN IF r.ok THEN [ok |-> TRUE, args |-> [command |-> m_config.name, argTable |-> r.argTable]]
     ELSE r

-----------------------------------------------------------------------------
(* CommandArgs::parse, first revision (CommandProcessor.hpp:1078-1117) *)

\* the inner while loop of the first revision: a value beyond argSize throws
RECURSIVE ConsumeValues_hpp(_, _, _, _, _, _)
ConsumeValues_hpp(conf, args, i, argSize, count, val) ==
  IF i <= Len(args) /\ ~CommandConfig_has(conf, args[i])
  THEN IF count < argSize
       THEN ConsumeValues_hpp(conf, args, i + 1, argSize, count + 1, val \o args[i] \o <<SP>>)
       ELSE [ok |-> FALSE, what |-> UnexpectedValue(args[i])]
  ELSE [ok |-> TRUE, i |-> i, count |-> count, val |-> val]

RECURSIVE CommandArgs_parse_hpp_loop(_, _, _, _)
CommandArgs_parse_hpp_loop(m_config, args, i, m_argTable) ==
  IF i > Len(args) THEN [ok |-> TRUE, argTable |-> m_argTable]
  ELSE
    LET command_count == 0
        isProperty == CommandConfig_has(m_config, args[i])
        key == IF isProperty THEN args[i] ELSE m_config.name
        j == IF isProperty THEN i + 1 ELSE i
        count == IF isProperty THEN 0 ELSE command_count
    IN IF ~CommandConfig_has(m_config, key)
       THEN [ok |-> FALSE, what |-> KeyNotFound(key)]
       ELSE
         LET option == m_config.options[key]
             c == ConsumeValues_hpp(m_config, args, j, option.argSize, count, <<>>)
         IN IF ~c.ok THEN c
            ELSE IF c.count < option.argSize /\ ~option.variadicSize
            THEN [ok |-> FALSE, what |-> NotEnoughArguments(key)]
            ELSE CommandArgs_parse_hpp_loop(m_config, args, c.i,
                   Insert(m_argTable, key, IF c.val /= <<>> THEN pop_back(c.val) ELSE c.val))

CommandArgs_parse_hpp(m_config, args) ==
  LET r == CommandArgs_parse_hpp_loop(m_config, args, 1, EmptyTable)
  IN IF r.ok THEN [ok |-> TRUE, args |-> [command |-> m_config.name, argTable |-> r.argTable]]
     ELSE r

-----------------------------------------------------------------------------
(* CommandParser, CommandParser-based revision (part_000:810-949) *)

\* CommandParser::hasConfig
hasConfig(m_configs, name) == name \in DOMAIN m_configs

\* CommandParser::config: the registered Ptr, or nullptr
CommandParser_config(m_configs, name) ==
  IF name \in DOMAIN m_configs THEN m_configs[name] ELSE nullptr

\* parseCommand whose loop skips the command token also when the
\* configuration declares an option of that name
RECURSIVE parseCommand_loop_skipDeclared(_, _, _, _, _)
parseCommand_loop_skipDeclared(conf, command, args, i, m_argTable) ==
  IF i > Len(args) THEN [ok |-> TRUE, argTable |-> m_argTable]
  ELSE IF args[i] = command
  THEN parseCommand_loop_skipDeclared(conf, command, args, i + 1, m_argTable)
  ELSE
    LET isKey == Ptr_has(conf, args[i])
        option == IF isKey THEN conf.options[args[i]] ELSE unk_opt
        j == IF isKey THEN i + 1 ELSE i
        c == ConsumeValues(conf, args, j, option.argSize, 0, <<>>)
        val == IF c.val /= <<>> THEN pop_back(c.val) ELSE c.val
    IN IF c.count < option.argSize /\ ~option.variadicSize
       THEN [ok |-> FALSE, what |-> NotEnoughArguments(option.name)]
       ELSE parseCommand_loop_skipDeclared(conf, command, args, c.i, Insert(m_argTable, option.name, val))

RECURSIVE parseCommand_loop(_, _, _, _, _)
parseCommand_loop(conf, command, args, i, m_argTable) ==
  IF i > Len(args) THEN [ok |-> TRUE, argTable |-> m_argTable]
  ELSE IF args[i] = command /\ ~Ptr_has(conf, command)
  THEN parseCommand_loop(conf, command, args, i + 1, m_argTable)
  ELSE
    LET isKey == Ptr_has(conf, args[i])
        option == IF isKey THEN conf.options[args[i]] ELSE unk_opt
        j == IF isKey THEN i + 1 ELSE i
        c == ConsumeValues(conf, args, j, option.argSize, 0, <<>>)
        val == IF c.val /= <<>> THEN pop_back(c.val) ELSE c.val
    IN IF c.count < option.argSize /\ ~option.variadicSize
       THEN [ok |-> FALSE, what |-> NotEnoughArguments(option.name)]
       ELSE parseCommand_loop(conf, command, args, c.i, Insert(m_argTable, option.name, val))

\* CommandParser::parseCommand(command, args)
parseCommand(m_configs, command, args) ==
  LET r == parseCommand_loop(CommandParser_config(m_configs, command), command, args, 1, EmptyTable)
  IN IF r.ok THEN [ok |-> TRUE, args |-> [command |-> command, argTable |-> r.argTable]]
     ELSE r

\* the inner while loop of CommandParser::parse: the end of the segment
RECURSIVE SegmentEnd(_, _, _)
SegmentEnd(m_configs, args, i) ==
  IF i <= Len(args) /\ ~hasConfig(m_configs, args[i])
  THEN SegmentEnd(m_configs, args, i + 1)
  ELSE i

\* CommandParser::parse(): appends one CommandArgs per segment to m_commands;
\* a throw of parseCommand leaves the segments pushed so far in m_commands
RECURSIVE CommandParser_parse_loop(_, _, _, _)
CommandParser_parse_loop(m_configs, args, i, commands) ==
  IF i > Len(args) THEN [ok |-> TRUE, m_commands |-> commands]
  ELSE
    LET isCmd == hasConfig(m_configs, args[i])
        command == IF isCmd THEN args[i] ELSE UNKNOWN
        j == IF isCmd THEN i + 1 ELSE i
        e == SegmentEnd(m_configs, args, j)
        segArgs == <<command>> \o SubSeq(args, j, e - 1)
        r == parseCommand(m_configs, command, segArgs)
    IN IF ~r.ok THEN [ok |-> FALSE, m_commands |-> commands, what |-> r.what]
       ELSE CommandParser_parse_loop(m_configs, args, e, Append(commands, r.args))

\* CommandParser::parse(args): init(args); parse()
CommandParser_parse(parser, args) ==
  LET r == CommandParser_parse_loop(parser.m_configs, args, 1, parser.m_commands)
  IN [ok |-> r.ok,
      what |-> IF r.ok THEN <<>> ELSE r.what,
      parser |-> [m_args |-> args, m_commands |-> r.m_commands, m_configs |-> parser.m_configs]]

\* CommandParser(): no arguments, no commands, no configs
CommandParser_new == [m_args |-> <<>>, m_commands |-> <<>>, m_configs |-> EmptyTable]

\* CommandParser::appendConfig
appendConfig(parser, pConfig) ==
  [parser EXCEPT !.m_configs = Insert(parser.m_configs, pConfig.name, pConfig)]

-----------------------------------------------------------------------------
(* CommandCaller::invoke(const ArgVec&), one per revision.  The result is   *)
(* what the bound invocable received, or the exception that left invoke.   *)

OutOfRange == <<"Out of range">>

\* part_000:458-462: CommandArgs cargs(args, m_config); callback(cargs)
CommandCaller_invoke_args(m_config, args) == CommandArgs_parse(m_config, args)

\* CommandProcessor.hpp:1175-1179: the same over the first revision's parse
CommandCaller_invoke_hpp(m_config, args) == CommandArgs_parse_hpp(m_config, args)

\* part_000:1138-1146: a local CommandParser holding only m_config parses
\* args; the invocable gets cparser.command(0)
CommandCaller_invoke(m_config, args) ==
  LET r == CommandParser_parse(appendConfig(CommandParser_new, m_config), args)
  IN IF ~r.ok THEN [ok |-> FALSE, what |-> r.what]
     ELSE IF Len(r.parser.m_commands) = 0 THEN [ok |-> FALSE, what |-> OutOfRange]
     ELSE [ok |-> TRUE, args |-> r.parser.m_commands[1]]

-----------------------------------------------------------------------------
(* Parser harness: one CommandConfig, one token segment, and a             *)
(* CommandCaller over that configuration invoked on the segment.           *)

HarnessTokens == {CMD1, OPT_O, OPT_P, VAL_V}

Segments == SeqsUpTo(HarnessTokens, MaxSegLen)

\* an option table with the one option, or with none
OneOption(name, argSize, variadicSize) == name :> Option(name, argSize, variadicSize)

HarnessOptionTables ==
  { o @@ p @@ u @@ c :
      o \in {EmptyTable} \cup {OneOption(OPT_O, k, v) : k \in 0..MaxArity, v \in BOOLEAN},
      p \in {EmptyTable, OneOption(OPT_P, 1, FALSE)},
      u \in {EmptyTable, OneOption(UNKNOWN, 2, FALSE)},
      c \in {EmptyTable, OneOption(CMD1, 1, FALSE)} }

ConfigPool == {CommandConfig(CMD1, t) : t \in HarnessOptionTables}

NotParsed == [by |-> "none"]

\* a default-constructed StatusHandler object
StatusHandler_new == [type |-> "StatusHandler"]

\* no handler was passed to setHandler
NoHost == [type |-> "none"]

\* a Commander as default-constructed, untouched by the harness
CommanderIdle ==
  /\ revision = "CommandParser"
  /\ m_args = <<>>
  /\ m_commands = EmptyTable
  /\ m_parser = CommandParser_new
  /\ m_handler = StatusHandler_new
  /\ host = NoHost
  /\ events = <<>>
  /\ outcome = "none"
  /\ runs = 0

HarnessInit ==
  /\ CommanderIdle
  /\ config \in ConfigPool
  /\ segment \in Segments
  /\ parsed = NotParsed

InvokeArgs ==
  /\ parsed' = [by |-> "CommandArgs"] @@ CommandCaller_invoke_args(config, segment)
  /\ UNCHANGED <<config, segment>>
  /\ UNCHANGED commanderVars

InvokeHpp ==
  /\ parsed' = [by |-> "hpp"] @@ CommandCaller_invoke_hpp(config, segment)
  /\ UNCHANGED <<config, segment>>
  /\ UNCHANGED commanderVars

InvokeParser ==
  /\ parsed' = [by |-> "CommandParser"] @@ CommandCaller_invoke(config, segment)
  /\ UNCHANGED <<config, segment>>
  /\ UNCHANGED commanderVars

HarnessNext == InvokeArgs \/ InvokeHpp \/ InvokeParser

SpecParse == HarnessInit /\ [][HarnessNext]_vars

-----------------------------------------------------------------------------
(* CommandStatus, StatusHandler, CommandCaller *)

CommandStatus(name, status, msg) == [name |-> name, status |-> status, msg |-> msg]

\* what a bound invocable throws when it fails
HandlerFailed == <<"handler failed">>

\* the invocable bound into a CommandCaller, by its behaviour: it returns an
\* OK status, returns an ERROR status, or throws a std::exception
Callback(behaviour, cargs) ==
  CASE behaviour = "ok" -> [threw |-> FALSE, status |-> CommandStatus(cargs.command, "OK", <<>>)]
    [] behaviour = "error" -> [threw |-> FALSE, status |-> CommandStatus(cargs.command, "ERROR", HandlerFailed)]
    [] behaviour = "throw" -> [threw |-> TRUE, what |-> HandlerFailed]

\* CommandCaller(callback, config)
CommandCaller(conf, behaviour) == [m_config |-> conf, m_callback |-> behaviour]

\* a handler of the host: a class derived from StatusHandler whose handle
\* override returns the given control signal
HostHandler(signal) == [type |-> "HostHandler", signal |-> signal]

\* the implicit StatusHandler::operator=(const StatusHandler&): the class has
\* no data members, and assignment does not change the dynamic type of self
StatusHandler_assign(self, other) == self

\* the virtual call m_handler.handle(stat): the override of the object's
\* dynamic type runs; StatusHandler::handle itself returns 0
StatusHandler_handle(self, stat) ==
  IF self.type = "StatusHandler" THEN 0 ELSE self.signal

\* the events one call leaves behind
ParseEvent(command) == [type |-> "parse", command |-> command]

InvokeEvent(cargs) == [type |-> "invoke", command |-> cargs.command, args |-> cargs]

HandleEvent(self, stat) ==
  [type |-> "handle", by |-> self.type, status |-> stat, ret |-> StatusHandler_handle(self, stat)]

-----------------------------------------------------------------------------
(* Commander::run, CommandParser-based revision (part_000:1167-1194) *)

\* Commander::isCommand
isCommand(commands, val) == val \in DOMAIN commands

\* the for loop of run over m_parser.commands()
RECURSIVE Commander_run_loop(_, _, _, _, _, _)
Commander_run_loop(parserCommands, commands, handler, i, state, evs) ==
  IF ~(state = 0 /\ i <= Len(parserCommands)) THEN evs
  ELSE
    LET commandArgs == parserCommands[i]
        name == commandArgs.command
    IN IF isCommand(commands, name)
       THEN LET r == Callback(commands[name].m_callback, commandArgs)
                stat == IF r.threw THEN CommandStatus(name, "ERROR", r.what) ELSE r.status
            IN Commander_run_loop(parserCommands, commands, handler, i + 1,
                 StatusHandler_handle(handler, stat),
                 evs \o <<InvokeEvent(commandArgs), HandleEvent(handler, stat)>>)
       ELSE LET stat == CommandStatus(name, "ERROR", NotACommand)
            IN Commander_run_loop(parserCommands, commands, handler, i + 1,
                 StatusHandler_handle(handler, stat),
                 evs \o <<HandleEvent(handler, stat)>>)

\* the parse events of the segments that m_parser.parse added in this call
NewParseEvents(before, after) ==
  [k \in 1..(Len(after) - Len(before)) |-> ParseEvent(after[Len(before) + k].command)]

\* Commander::run(): m_parser.parse(m_args) is outside the try block, so a
\* throw of parseCommand leaves run
Commander_run(args, commands, parser, handler) ==
  LET p == CommandParser_parse(parser, args)
      parsedEvs == NewParseEvents(parser.m_commands, p.parser.m_commands)
  IN IF ~p.ok
     THEN [outcome |-> "threw", what |-> p.what, parser |-> p.parser, events |-> parsedEvs]
     ELSE [outcome |-> "returned", what |-> <<>>, parser |-> p.parser,
           events |-> Commander_run_loop(p.parser.m_commands, commands, handler, 1, 0, parsedEvs)]

-----------------------------------------------------------------------------
(* Commander::run, CommandArgs-based revision (part_000:478-507) *)

\* the inner while loop of run: the last index of the segment opened at i
RECURSIVE SegmentLast(_, _, _)
SegmentLast(commands, args, i) ==
  IF i + 1 <= Len(args) /\ ~isCommand(commands, args[i + 1])
  THEN SegmentLast(commands, args, i + 1)
  ELSE i

\* the for loop of run; one try block encloses the whole loop, so the first
\* exception ends it in the catch clause
RECURSIVE Commander_run_args_loop(_, _, _, _, _)
Commander_run_args_loop(args, commands, handler, i, evs) ==
  IF i > Len(args) THEN evs
  ELSE IF isCommand(commands, args[i])
  THEN
    LET command == args[i]
        last == SegmentLast(commands, args, i)
        segArgs == <<command>> \o SubSeq(args, i + 1, last)
        cargs == CommandCaller_invoke_args(commands[command].m_config, segArgs)
    IN IF ~cargs.ok
       THEN evs \o <<HandleEvent(handler, CommandStatus(command, "ERROR", cargs.what))>>
       ELSE LET r == Callback(commands[command].m_callback, cargs.args)
            IN IF r.threw
               THEN evs \o <<ParseEvent(command), InvokeEvent(cargs.args),
                             HandleEvent(handler, CommandStatus(command, "ERROR", r.what))>>
               ELSE Commander_run_args_loop(args, commands, handler, last + 1,
                      evs \o <<ParseEvent(command), InvokeEvent(cargs.args),
                               HandleEvent(handler, r.status)>>)
  ELSE evs \o <<HandleEvent(handler, CommandStatus(args[i], "ERROR", NotACommand))>>

Commander_run_args(args, commands, parser, handler) ==
  [outcome |-> "returned", what |-> <<>>, parser |-> parser,
   events |-> Commander_run_args_loop(args, commands, handler, 1, <<>>)]

-----------------------------------------------------------------------------
(* The Commander as a state machine *)

CommanderTokens == {CMD1, CMD2, OPT_O}

ArgVecs == SeqsUpTo(CommanderTokens, MaxArgs)

\* the CommandCallers the host registers
CallerPool ==
  { CommandCaller(CommandConfig(CMD1, OneOption(OPT_O, 1, FALSE)), "ok"),
    CommandCaller(CommandConfig(CMD1, EmptyTable), "ok"),
    CommandCaller(CommandConfig(CMD2, EmptyTable), "ok"),
    CommandCaller(CommandConfig(CMD2, EmptyTable), "throw"),
    CommandCaller(CommandConfig(UNKNOWN, EmptyTable), "ok") }

\* the handlers the host passes to setHandler
HostHandlers == {HostHandler(0), HostHandler(1)}

HarnessIdle ==
  /\ config = CommandConfig(CMD1, EmptyTable)
  /\ segment = <<>>
  /\ parsed = NotParsed

\* Commander(): default construction
Init ==
  /\ revision \in {"CommandArgs", "CommandParser"}
  /\ m_args = <<>>
  /\ m_commands = EmptyTable
  /\ m_parser = CommandParser_new
  /\ m_handler = StatusHandler_new
  /\ host = NoHost
  /\ events = <<>>
  /\ outcome = "none"
  /\ runs = 0
  /\ HarnessIdle

\* Commander::init(args)
init(args) ==
  /\ runs < MaxRuns
  /\ m_args' = args
  /\ events' = <<>>
  /\ outcome' = "none"
  /\ UNCHANGED <<revision, m_commands, m_parser, m_handler, host, runs>>
  /\ UNCHANGED harnessVars

\* Commander::run() of the revision built
RunResult(args) ==
  IF revision = "CommandParser"
  THEN Commander_run(args, m_commands, m_parser, m_handler)
  ELSE Commander_run_args(args, m_commands, m_parser, m_handler)

run ==
  /\ runs < MaxRuns
  /\ \E r \in {RunResult(m_args)} :
        /\ m_parser' = r.parser
        /\ events' = r.events
        /\ outcome' = r.outcome
  /\ runs' = runs + 1
  /\ UNCHANGED <<revision, m_args, m_commands, m_handler, host>>
  /\ UNCHANGED harnessVars

\* Commander::appendCommand(caller)
appendCommand(caller) ==
  /\ runs < MaxRuns
  /\ m_commands' = Insert(m_commands, caller.m_config.name, caller)
  /\ m_parser' = IF revision = "CommandParser"
                 THEN appendConfig(m_parser, caller.m_config)
                 ELSE m_parser
  /\ events' = <<>>
  /\ outcome' = "none"
  /\ UNCHANGED <<revision, m_args, m_handler, host, runs>>
  /\ UNCHANGED harnessVars

\* std::unordered_map::erase(key)
Erase(table, key) == [k \in (DOMAIN table) \ {key} |-> table[k]]

\* a removeConfig that leaves the configuration in the parser
removeConfig_kept(parser, name) == parser

\* CommandParser::removeConfig
removeConfig(parser, name) ==
  [parser EXCEPT !.m_configs = Erase(parser.m_configs, name)]

\* Commander::removeCommand(callerName), CommandParser-based revision only
removeCommand(callerName) ==
  /\ runs < MaxRuns
  /\ revision = "CommandParser"
  /\ m_commands' = Erase(m_commands, callerName)
  /\ m_parser' = removeConfig(m_parser, callerName)
  /\ events' = <<>>
  /\ outcome' = "none"
  /\ UNCHANGED <<revision, m_args, m_handler, host, runs>>
  /\ UNCHANGED harnessVars

\* Commander::setHandler(handler): m_handler = handler
setHandler(handler) ==
  /\ runs < MaxRuns
  /\ host' = handler
  /\ m_handler' = StatusHandler_assign(m_handler, handler)
  /\ events' = <<>>
  /\ outcome' = "none"
  /\ UNCHANGED <<revision, m_args, m_commands, m_parser, runs>>
  /\ UNCHANGED harnessVars

Init_args == \E args \in ArgVecs : init(args)

AppendCommand == \E caller \in CallerPool : appendCommand(caller)

RemoveCommand == \E name \in {c.m_config.name : c \in CallerPool} : removeCommand(name)

SetHandler == \E handler \in HostHandlers : setHandler(handler)

Next == Init_args \/ run \/ AppendCommand \/ RemoveCommand \/ SetHandler

Spec == Init /\ [][Next]_vars

-----------------------------------------------------------------------------
(* Commander::invokeCommand(command, args): direct invocation of one       *)
(* registered CommandCaller (part_000:520-523 and 1215-1218)               *)

\* what std::unordered_map::at throws for a key that is not in the map
MapAtOutOfRange == <<"std::out_of_range">>

\* an invokeCommand that reports a missing command as a Status instead of
\* throwing
Commander_invokeCommand_reported(rev, commands, handler, command, args) ==
  LET stat == CommandStatus(command, "ERROR", NotACommand)
  IN [ok |-> TRUE, status |-> stat, events |-> <<HandleEvent(handler, stat)>>]

\* CommandCaller::invoke(const CommandArgs&): the bound invocable is called
\* with the parsed arguments, unless parsing them threw
InvokeCallback(caller, cargs) ==
  IF ~cargs.ok THEN [ok |-> FALSE, what |-> cargs.what, events |-> <<>>]
  ELSE LET r == Callback(caller.m_callback, cargs.args)
       IN IF r.threw
          THEN [ok |-> FALSE, what |-> r.what, events |-> <<InvokeEvent(cargs.args)>>]
          ELSE [ok |-> TRUE, status |-> r.status, events |-> <<InvokeEvent(cargs.args)>>]

\* CommandCaller::invoke(const ArgVec&) of the revision built, the call of
\* the bound invocable included
CommandCaller_invoke_call(rev, caller, args) ==
  InvokeCallback(caller, IF rev = "CommandParser"
                         THEN CommandCaller_invoke(caller.m_config, args)
                         ELSE CommandCaller_invoke_args(caller.m_config, args))

\* return m_commands.at(command).invoke(args)
Commander_invokeCommand(rev, commands, handler, command, args) ==
  IF command \notin DOMAIN commands
  THEN [ok |-> FALSE, what |-> MapAtOutOfRange, events |-> <<>>]
  ELSE CommandCaller_invoke_call(rev, commands[command], args)

\* Commander::invokeCommand(command, args); the harness variables hold the
\* arguments and the result of the call
invokeCommand(command, args) ==
  /\ \E r \in {Commander_invokeCommand(revision, m_commands, m_handler, command, args)} :
        /\ events' = r.events
        /\ outcome' = IF r.ok THEN "invokeCommand returned" ELSE "invokeCommand threw"
        /\ parsed' = [by |-> "invokeCommand", command |-> command, ok |-> r.ok,
                      what |-> IF r.ok THEN <<>> ELSE r.what]
  /\ segment' = args
  /\ UNCHANGED <<revision, m_args, m_commands, m_parser, m_handler, host, runs, config>>

\* longest token sequence passed to invokeCommand
MaxInvokeArgs == 2

InvokeCommand ==
  \E name \in {c.m_config.name : c \in CallerPool} :
    \E args \in SeqsUpTo(CommanderTokens, MaxInvokeArgs) : invokeCommand(name, args)

NextInvoke == AppendCommand \/ RemoveCommand \/ SetHandler \/ InvokeCommand

SpecInvoke == Init /\ [][NextInvoke]_vars

-----------------------------------------------------------------------------
(* The accessors of CommandArgs (part_000:997-1057), applied to the table   *)
(* that CommandParser::parseCommand builds.  Here the atoms of a string are *)
(* its single characters.                                                   *)

\* most value tokens that follow the option in the accessor harness
MaxValues == 2

OPT_K == <<"--k">>

\* the value tokens: the empty string, "a", "a b", "42", "42a", "-1", "1",
\* 2^32 and 2^64
AccessTokens ==
  { <<>>, <<"a">>, <<"a", SP, "b">>, <<"4", "2">>, <<"4", "2", "a">>, <<"-", "1">>, <<"1">>,
    <<"4", "2", "9", "4", "9", "6", "7", "2", "9", "6">>,
    <<"1", "8", "4", "4", "6", "7", "4", "4", "0", "7", "3", "7", "0", "9", "5", "5", "1", "6", "1", "6">> }

\* the command declares --k, which takes up to MaxValues values
AccessConfig == CommandConfig(CMD1, OneOption(OPT_K, MaxValues, TRUE))

\* [cmd1, --k, values...], or [cmd1] alone: the key --k absent
AccessSegments ==
  {<<CMD1>>} \cup {<<CMD1, OPT_K>> \o v : v \in SeqsUpTo(AccessTokens, MaxValues)}

\* m_argTable of the CommandArgs parsed from the segment
ArgTableOf(conf, seg) == parseCommand(conf.name :> conf, conf.name, seg).args.argTable

\* std::getline(ss, val, ' ') until it fails: a call that reaches the end of
\* the stream without extracting a character fails
RECURSIVE getline_all(_)
getline_all(ss) ==
  IF ss = <<>> THEN <<>>
  ELSE IF \E i \in 1..Len(ss) : ss[i] = SP
  THEN LET i == CHOOSE i \in 1..Len(ss) : ss[i] = SP /\ \A j \in 1..(i - 1) : ss[j] /= SP
       IN <<SubSeq(ss, 1, i - 1)>> \o getline_all(SubSeq(ss, i + 1, Len(ss)))
  ELSE <<ss>>

\* CommandArgs::getStrVec(name, throwEx)
getStrVec(m_argTable, name, throwEx) ==
  IF name \notin DOMAIN m_argTable
  THEN IF throwEx THEN [ok |-> FALSE, what |-> KeyNotFound(name)] ELSE [ok |-> TRUE, value |-> <<>>]
  ELSE [ok |-> TRUE, value |-> getline_all(m_argTable[name])]

Digits == {"0", "1", "2", "3", "4", "5", "6", "7", "8", "9"}

DigitOf ==
  "0" :> 0 @@ "1" :> 1 @@ "2" :> 2 @@ "3" :> 3 @@ "4" :> 4 @@
  "5" :> 5 @@ "6" :> 6 @@ "7" :> 7 @@ "8" :> 8 @@ "9" :> 9

\* strtoul skips leading white space
RECURSIVE SkipSpaces(_)
SkipSpaces(str) ==
  IF str /= <<>> /\ str[1] = SP THEN SkipSpaces(Tail(str)) ELSE str

\* the longest prefix of digits: strtoul stops at the first other character
RECURSIVE DigitPrefix(_)
DigitPrefix(str) ==
  IF str /= <<>> /\ str[1] \in Digits THEN <<str[1]>> \o DigitPrefix(Tail(str)) ELSE <<>>

\* a number as its decimal digits without leading zeros
RECURSIVE StripZeros(_)
StripZeros(d) ==
  IF Len(d) > 1 /\ d[1] = "0" THEN StripZeros(Tail(d)) ELSE d

\* a <= b for numbers given as digits without leading zeros
RECURSIVE DigitsLeq(_, _)
DigitsLeq(a, b) ==
  IF Len(a) /= Len(b) THEN Len(a) < Len(b)
  ELSE IF a = <<>> THEN TRUE
  ELSE IF a[1] /= b[1] THEN DigitOf[a[1]] < DigitOf[b[1]]
  ELSE DigitsLeq(Tail(a), Tail(b))

\* the widths of unsigned long among the builds: 32 (LLP64, ILP32) or 64 (LP64)
ULongBits == {32, 64}

\* 2^32 - 1 and 2^64 - 1 in digits
UINT32_MAX_DIGITS == <<"4", "2", "9", "4", "9", "6", "7", "2", "9", "5">>

UINT64_MAX_DIGITS ==
  <<"1", "8", "4", "4", "6", "7", "4", "4", "0", "7", "3", "7", "0", "9", "5", "5", "1", "6", "1", "5">>

ULONG_MAX_DIGITS(bits) == IF bits = 32 THEN UINT32_MAX_DIGITS ELSE UINT64_MAX_DIGITS

InvalidArgument == <<"stoul: invalid_argument">>

StoulOutOfRange == <<"stoul: out_of_range">>

\* return std::stoul(str) from a function returning uint32_t: white space is
\* skipped, a sign is accepted, the digits up to the first other character
\* are the number; no digit throws std::invalid_argument, a magnitude above
\* ULONG_MAX throws std::out_of_range; a negative number is negated in
\* unsigned long, and the result is narrowed to 32 bits.  The value is exact
\* (the number read, in digits) or wrapped (another number, modulo 2^32).
stoul(str, bits) ==
  LET t == SkipSpaces(str)
      signed == t /= <<>> /\ t[1] \in {"-", "+"}
      negative == t /= <<>> /\ t[1] = "-"
      d == DigitPrefix(IF signed THEN Tail(t) ELSE t)
      n == StripZeros(d)
  IN IF d = <<>> THEN [ok |-> FALSE, what |-> InvalidArgument]
     ELSE IF ~DigitsLeq(n, ULONG_MAX_DIGITS(bits)) THEN [ok |-> FALSE, what |-> StoulOutOfRange]
     ELSE IF n = <<"0">> \/ (~negative /\ DigitsLeq(n, UINT32_MAX_DIGITS))
     THEN [ok |-> TRUE, exact |-> TRUE, digits |-> n]
     ELSE [ok |-> TRUE, exact |-> FALSE, digits |-> n]

\* CommandArgs::getUInt(name)
getUInt(m_argTable, name, bits) ==
  IF name \notin DOMAIN m_argTable THEN [ok |-> FALSE, what |-> KeyNotFound(name)]
  ELSE stoul(m_argTable[name], bits)

\* CommandArgs::getUInt(name, defValue)
getUInt_default(m_argTable, name, defValue, bits) ==
  IF name \notin DOMAIN m_argTable THEN [ok |-> TRUE, exact |-> TRUE, digits |-> defValue]
  ELSE stoul(m_argTable[name], bits)

\* the default value passed by the harness: 7
DefValue == <<"7">>

AccessInit ==
  /\ CommanderIdle
  /\ config = AccessConfig
  /\ segment \in AccessSegments
  /\ parsed = NotParsed

GetStrVec ==
  /\ \E throwEx \in BOOLEAN :
       parsed' = [by |-> "getStrVec"] @@ getStrVec(ArgTableOf(config, segment), OPT_K, throwEx)
  /\ UNCHANGED <<config, segment>>
  /\ UNCHANGED commanderVars

GetUInt ==
  /\ \E bits \in ULongBits :
       parsed' = [by |-> "getUInt", bits |-> bits] @@ getUInt(ArgTableOf(config, segment), OPT_K, bits)
  /\ UNCHANGED <<config, segment>>
  /\ UNCHANGED commanderVars

GetUIntDefault ==
  /\ \E bits \in ULongBits :
       parsed' = [by |-> "getUInt default", bits |-> bits]
                   @@ getUInt_default(ArgTableOf(config, segment), OPT_K, DefValue, bits)
  /\ UNCHANGED <<config, segment>>
  /\ UNCHANGED commanderVars

AccessNext == GetStrVec \/ GetUInt \/ GetUIntDefault

SpecAccess == AccessInit /\ [][AccessNext]_vars

-----------------------------------------------------------------------------
(* What a run call did, read from the events *)

RECURSIVE Select(_, _)
Select(evs, kind) ==
  IF evs = <<>> THEN <<>>
  ELSE IF Head(evs).type = kind THEN <<Head(evs)>> \o Select(Tail(evs), kind)
  ELSE Select(Tail(evs), kind)

\* the Statuses passed to m_handler.handle, in order
Statuses == Select(events, "handle")

\* the invocations of bound invocables, in order
Invocations == Select(events, "invoke")

\* the last API call was Commander::run
RunEnded == outcome \in {"returned", "threw"}

Registered == DOMAIN m_commands

\* the segments of the loaded token sequence: a segment starts at the first
\* token and at every token that is a registered command name
SegmentStarts == {i \in 1..Len(m_args) : i = 1 \/ m_args[i] \in Registered}

SegmentCount == Cardinality(SegmentStarts)

\* the k-th segment start, in token order
StartOf(k) == CHOOSE i \in SegmentStarts : Cardinality({j \in SegmentStarts : j <= i}) = k

EndOf(k) == IF k = SegmentCount THEN Len(m_args) ELSE StartOf(k + 1) - 1

SegmentOf(k) == SubSeq(m_args, StartOf(k), EndOf(k))

FirstIsCommand == Len(m_args) > 0 /\ m_args[1] \in Registered

\* parsing a command segment against the configuration registered for it,
\* as the revision built does it
ParseSegment(seg) ==
  IF revision = "CommandParser"
  THEN parseCommand(m_parser.m_configs, seg[1], seg)
  ELSE CommandArgs_parse(m_commands[seg[1]].m_config, seg)

\* segment k fails: its arity check fails, or its handler throws
SegmentFails(k) ==
  /\ SegmentOf(k)[1] \in Registered
  /\ \/ ~ParseSegment(SegmentOf(k)).ok
     \/ m_commands[SegmentOf(k)[1]].m_callback = "throw"

-----------------------------------------------------------------------------
(* Claims about Commander::run *)

\* C1: Commander::run (CommandParser-based revision) never lets a failure
\* escape to its caller: whatever is registered and loaded, run returns
\* normally, an arity error of a segment being reported as an ERROR Status.
C1_RunNeverThrows ==
  (revision = "CommandParser" /\ RunEnded) => outcome = "returned"

\* C2: a failure in one segment (arity error or handler exception) does not
\* abort run: every later segment still gets its own Status.
C2_LaterSegmentsStillDispatched ==
  (RunEnded /\ FirstIsCommand) =>
    \A f \in 1..SegmentCount : \A k \in 1..SegmentCount :
      (f < k /\ SegmentFails(f)) => Len(Statuses) >= k

\* C3: with a callback that never signals, exactly one Status is delivered
\* for each segment of the loaded sequence, in segment order.
C3_OneStatusPerSegment ==
  (RunEnded /\ FirstIsCommand /\ \A j \in 1..Len(Statuses) : Statuses[j].ret = 0) =>
    /\ Len(Statuses) = SegmentCount
    /\ \A k \in 1..SegmentCount : Statuses[k].status.name = SegmentOf(k)[1]

\* C4: each run call invokes handlers and delivers Statuses only for the
\* segments of the sequence loaded at that call; segments parsed by an
\* earlier run call are not dispatched again (CommandParser-based revision).
C4_OnlyLoadedSegmentsDispatched ==
  (revision = "CommandParser" /\ RunEnded) =>
    /\ Len(Statuses) <= SegmentCount
    /\ Len(Invocations) <= SegmentCount

\* C5: when the first token is a registered command name, the handlers are
\* invoked once per segment, left to right, each with the arguments parsed
\* from its own segment only (stated for sequences all of whose segments
\* satisfy their arity).
C5_HandlersInvokedPerSegmentInOrder ==
  (RunEnded /\ FirstIsCommand /\ \A k \in 1..SegmentCount : ParseSegment(SegmentOf(k)).ok) =>
    /\ Len(Invocations) = SegmentCount
    /\ \A k \in 1..SegmentCount :
         /\ Invocations[k].command = SegmentOf(k)[1]
         /\ Invocations[k].args = ParseSegment(SegmentOf(k)).args

\* C6: for a non-empty sequence none of whose tokens is a registered command
\* name, run delivers exactly one Status, an ERROR "not a command", and
\* invokes no handler, whatever is registered under other names (stated for
\* the first run call of a Commander).
C6_NotACommandOnly ==
  (RunEnded /\ runs = 1 /\ Len(m_args) > 0
     /\ \A i \in 1..Len(m_args) : m_args[i] \notin Registered) =>
    /\ Len(Statuses) = 1
    /\ Statuses[1].status.status = "ERROR"
    /\ Statuses[1].status.msg = NotACommand
    /\ Invocations = <<>>

\* C7: cooperative early termination: once the status callback of the host
\* signals non-zero for a Status, no handler of a later segment is invoked
\* and no further Status is delivered in that run call (stated for the first
\* run call of a Commander).
C7_StopOnNonZeroSignal ==
  (RunEnded /\ runs = 1 /\ host.type = "HostHandler" /\ host.signal /= 0) =>
    /\ Len(Statuses) <= 1
    /\ Len(Invocations) <= 1

\* C8: after setHandler(h) every Status run produces is delivered to the
\* handle operation of h, and the value it returns is the signal run acts on.
C8_StatusesReachHostHandler ==
  (RunEnded /\ host.type = "HostHandler") =>
    \A j \in 1..Len(Statuses) :
      /\ Statuses[j].by = "HostHandler"
      /\ Statuses[j].ret = host.signal

-----------------------------------------------------------------------------
(* Claims about parsing one segment against one CommandConfig *)

\* the positions of the segment that hold a key of the configuration
KeyPositions == {p \in 1..Len(segment) : CommandConfig_has(config, segment[p])}

\* the last position before the next key after p, or the end of the segment
LastBeforeNextKey(p) ==
  LET later == {q \in KeyPositions : q > p}
  IN IF later = {} THEN Len(segment)
     ELSE (CHOOSE q \in later : \A r \in later : q <= r) - 1

\* the number of tokens that follow position p before the next key or the end
FollowCount(p) == LastBeforeNextKey(p) - p

\* the occurrences of a non-variadic option followed by fewer tokens than its argSize
DeficientPositions ==
  {p \in KeyPositions :
     /\ ~config.options[segment[p]].variadicSize
     /\ FollowCount(p) < config.options[segment[p]].argSize}

FirstDeficient == CHOOSE p \in DeficientPositions : \A q \in DeficientPositions : p <= q

\* the segment was parsed against the configuration by the CommandArgs-based
\* or the CommandParser-based revision; CommandCaller::invoke of the latter
\* parses against m_config the segment that opens with the command name
ParsedAgainstConfig ==
  \/ parsed.by = "CommandArgs"
  \/ /\ parsed.by = "CommandParser"
     /\ Len(segment) > 0
     /\ segment[1] = config.name
     /\ \A p \in 2..Len(segment) : segment[p] /= config.name

\* the space-join of a sequence of tokens
RECURSIVE Join(_)
Join(tokens) ==
  IF tokens = <<>> THEN <<>>
  ELSE IF Len(tokens) = 1 THEN tokens[1]
  ELSE tokens[1] \o <<SP>> \o Join(Tail(tokens))

OnlyKeyAt(p) ==
  /\ KeyPositions = {p}
  /\ \A q \in 1..(p - 1) : segment[q] = config.name
  /\ \A q \in (p + 1)..Len(segment) : segment[q] /= config.name
  /\ ~CommandConfig_has(config, config.name)
  /\ ~CommandConfig_has(config, UNKNOWN)

\* C10: a non-variadic option with argSize k followed by m >= k tokens that
\* are no keys: parsing succeeds, the option stores the space-join of the
\* first k of them, and the other m-k are no error but are stored under the
\* "unknown" key (stated for a segment whose only key is that option; the
\* first revision's CommandCaller::invoke gets the segment without the
\* command token).
C10_ArityCap ==
  (parsed.by = "hpp" \/ ParsedAgainstConfig) =>
    \A p \in 1..Len(segment) :
      (/\ OnlyKeyAt(p)
       /\ parsed.by = "hpp" => p = 1
       /\ ~config.options[segment[p]].variadicSize
       /\ FollowCount(p) >= config.options[segment[p]].argSize) =>
        LET k == config.options[segment[p]].argSize
            first == SubSeq(segment, p + 1, p + k)
            rest == SubSeq(segment, p + k + 1, Len(segment))
        IN /\ parsed.ok
           /\ parsed.args.argTable[segment[p]] = Join(first)
           /\ IF rest = <<>> THEN UNKNOWN \notin DOMAIN parsed.args.argTable
              ELSE /\ UNKNOWN \in DOMAIN parsed.args.argTable
                   /\ parsed.args.argTable[UNKNOWN] = Join(rest)

-----------------------------------------------------------------------------
(* Claims about the values stored for the keys of one segment *)

\* no later occurrence of the key at p
LastOccurrence(p) == \A q \in KeyPositions : q > p => segment[q] /= segment[p]

\* the tokens the occurrence at p is entitled to: the first min(m, k) of the
\* m tokens that follow it before the next key
Consumed(p) ==
  LET k == config.options[segment[p]].argSize
      m == FollowCount(p)
  IN SubSeq(segment, p + 1, p + (IF m < k THEN m ELSE k))

\* C11: an option with variadicSize = true and argSize k never makes parsing
\* fail; it stores the space-join of the first min(m, k) of the m non-key
\* tokens that follow it (the empty string when m = 0), never more than k.
C11_VariadicToleratesFewer ==
  ParsedAgainstConfig =>
    \A p \in KeyPositions :
      config.options[segment[p]].variadicSize =>
        /\ ~parsed.ok => parsed.what /= NotEnoughArguments(segment[p])
        /\ (parsed.ok /\ LastOccurrence(p)) =>
             /\ segment[p] \in DOMAIN parsed.args.argTable
             /\ parsed.args.argTable[segment[p]] = Join(Consumed(p))

\* C11 witness: a variadic option of argSize 2 followed by one token only was
\* parsed, and that token is its value
C11_Witness ==
  /\ ParsedAgainstConfig
  /\ parsed.by = "CommandParser"
  /\ parsed.ok
  /\ \E p \in KeyPositions :
       /\ config.options[segment[p]].variadicSize
       /\ config.options[segment[p]].argSize = 2
       /\ FollowCount(p) = 1
       /\ parsed.args.argTable[segment[p]] = segment[p + 1]

\* C12: if every occurrence of a non-variadic option is followed by at least
\* its argSize non-key tokens, parsing does not fail and every token that is
\* a key of the configuration has an entry under that key in the result.
C12_SatisfiedSegmentsParse ==
  (ParsedAgainstConfig /\ DeficientPositions = {}) =>
    /\ parsed.ok
    /\ \A p \in KeyPositions : segment[p] \in DOMAIN parsed.args.argTable

\* C13: when the same option key occurs more than once in a segment, the
\* value stored for it is the value consumed by its last occurrence only.
C13_LastOccurrenceWins ==
  (ParsedAgainstConfig /\ parsed.ok) =>
    \A p \in KeyPositions :
      (LastOccurrence(p) /\ \E q \in KeyPositions : q < p /\ segment[q] = segment[p]) =>
        parsed.args.argTable[segment[p]] = Join(Consumed(p))

\* C13 witness: a key occurs twice, its two occurrences consume different
\* values, and the segment was parsed
C13_Witness ==
  /\ ParsedAgainstConfig
  /\ parsed.ok
  /\ \E p \in KeyPositions : \E q \in KeyPositions :
       /\ q < p
       /\ segment[q] = segment[p]
       /\ LastOccurrence(p)
       /\ Consumed(q) /= Consumed(p)
       /\ Consumed(q) /= <<>>
       /\ parsed.args.argTable[segment[p]] = Join(Consumed(p))

\* the position of the first key of the segment, or one past its end
FirstKey ==
  IF KeyPositions = {} THEN Len(segment) + 1
  ELSE CHOOSE p \in KeyPositions : \A q \in KeyPositions : p <= q

\* the tokens between the command token and the first key
LeadingLoose == SubSeq(segment, 2, FirstKey - 1)

\* the segment opens with the command token, which is no option and does not
\* occur again
OpensWithCommand ==
  /\ Len(segment) > 0
  /\ segment[1] = config.name
  /\ ~CommandConfig_has(config, config.name)
  /\ \A q \in 2..Len(segment) : segment[q] /= config.name

\* C14: whatever options the configuration declares (one named "unknown"
\* included), the tokens between the command token and the first recognized
\* option never make parsing fail and are all stored, space-joined in
\* order, under the "unknown" key (stated for segments in which no option is
\* deficient and none is followed by more tokens than its argSize, so that
\* the leading tokens are the only loose ones).
C14_LooseTokensUnderUnknown ==
  (ParsedAgainstConfig /\ OpensWithCommand /\ LeadingLoose /= <<>>
     /\ DeficientPositions = {}
     /\ \A p \in KeyPositions : FollowCount(p) <= config.options[segment[p]].argSize) =>
    /\ parsed.ok
    /\ UNKNOWN \in DOMAIN parsed.args.argTable
    /\ parsed.args.argTable[UNKNOWN] = Join(LeadingLoose)

-----------------------------------------------------------------------------
(* Claims about Commander::invokeCommand *)

\* the last API call was Commander::invokeCommand
InvokeEnded == outcome \in {"invokeCommand returned", "invokeCommand threw"}

\* C15: invokeCommand(name, tokens) with a name that has no registered
\* handler fails with a not-found error raised to its caller: no handler is
\* invoked, the status callback is not called, the registry is unchanged.
C15_UnregisteredNameThrows ==
  [][(InvokeEnded' /\ parsed'.command \notin DOMAIN m_commands) =>
       /\ outcome' = "invokeCommand threw"
       /\ parsed'.what = MapAtOutOfRange
       /\ events' = <<>>
       /\ m_commands' = m_commands
       /\ m_parser' = m_parser]_vars

\* C15 witness: invokeCommand was called with a name that is not registered
\* on a Commander that has other commands registered, and threw
C15_Witness ==
  /\ outcome = "invokeCommand threw"
  /\ parsed.command \notin Registered
  /\ Registered /= {}
  /\ segment /= <<>>

\* parsing the whole of the tokens against the configuration of the caller,
\* as the parser of the revision built parses one segment
ParseWhole(conf, tokens) ==
  IF revision = "CommandParser"
  THEN parseCommand(conf.name :> conf, conf.name, tokens)
  ELSE CommandArgs_parse(conf, tokens)

\* C16: invokeCommand(name, tokens) performs no segmentation: the bound
\* invocable is called exactly once, with the arguments obtained by parsing
\* the whole of tokens against the CommandConfig of the handler, also when
\* tokens does not begin with the command name or holds it again later
\* (stated for a non-empty tokens).
C16_InvokeParsesWholeTokens ==
  (InvokeEnded /\ parsed.command \in Registered /\ segment /= <<>>) =>
    LET whole == ParseWhole(m_commands[parsed.command].m_config, segment)
    IN whole.ok =>
         /\ Len(Invocations) = 1
         /\ Invocations[1].args = whole.args

-----------------------------------------------------------------------------
(* Claims about re-registration and about the order of parsing and dispatch *)

\* C17: a command name maps to one handler, the one of the most recent
\* appendCommand for it, and a later run dispatches the segments of that
\* name with arguments parsed against the newest CommandConfig: every
\* invocation of a run call gets the arguments that parsing a segment of the
\* loaded sequence against the configuration now registered yields.
C17_NewestConfigParsesSegments ==
  (RunEnded /\ FirstIsCommand) =>
    \A j \in 1..Len(Invocations) :
      /\ Invocations[j].command \in Registered
      /\ \E k \in 1..SegmentCount :
           /\ SegmentOf(k)[1] = Invocations[j].command
           /\ ParseSegment(SegmentOf(k)).ok
           /\ Invocations[j].args = ParseSegment(SegmentOf(k)).args

\* C20: run handles the segments one at a time: when segment k+1 fails its
\* arity check, the handlers of segments 1..k have been invoked and their
\* Statuses delivered, in order (stated for the first run call of a
\* Commander and for segments 1..k that neither fail to parse nor throw).
C20_EarlierSegmentsDispatchedFirst ==
  (RunEnded /\ runs = 1 /\ FirstIsCommand) =>
    \A k \in 1..(SegmentCount - 1) :
      (/\ \A f \in 1..k : ~SegmentFails(f)
       /\ ~ParseSegment(SegmentOf(k + 1)).ok) =>
        /\ Len(Invocations) >= k
        /\ Len(Statuses) >= k
        /\ \A f \in 1..k :
             /\ Invocations[f].command = SegmentOf(f)[1]
             /\ Statuses[f].status.name = SegmentOf(f)[1]

-----------------------------------------------------------------------------
(* Claims about the accessors *)

\* the key --k is in the parsed table
KeyPresent == Len(segment) >= 2 /\ segment[2] = OPT_K

\* the value tokens the parser consumed for --k
ConsumedValues == SubSeq(segment, 3, Len(segment))

\* C18: round trip: for every sequence of value tokens the parser consumed
\* for a key (empty strings and strings with a space included), getStrVec
\* on the stored space-joined value returns exactly that sequence.
C18_GetStrVecRoundTrip ==
  (parsed.by = "getStrVec" /\ KeyPresent) =>
    /\ parsed.ok
    /\ parsed.value = ConsumedValues

\* the text is a valid unsigned integer as a whole: digits only, at least
\* one, and the number within 32 bits
IsUInt32Text(str) ==
  /\ str /= <<>>
  /\ \A i \in 1..Len(str) : str[i] \in Digits
  /\ DigitsLeq(StripZeros(str), UINT32_MAX_DIGITS)

\* C19: getUInt(key) and getUInt(key, default) on a present key return the
\* number when the whole stored text is a valid unsigned integer and fail
\* with a parse error whenever it is not (trailing non-digits, a
\* multi-token value, a negative number, a value above 32 bits); the
\* default is returned only when the key is absent.
C19_GetUIntWholeTextOrError ==
  (parsed.by \in {"getUInt", "getUInt default"}) =>
    IF KeyPresent
    THEN LET text == Join(ConsumedValues)
         IN IF IsUInt32Text(text)
            THEN parsed.ok /\ parsed.exact /\ parsed.digits = StripZeros(text)
            ELSE ~parsed.ok
    ELSE parsed.by = "getUInt default" => (parsed.ok /\ parsed.digits = DefValue)

-----------------------------------------------------------------------------
(* Claims about the values map of one segment *)

\* C21: CommandCaller::invoke (and so Commander::invokeCommand) on an empty
\* token vector does not fail: the bound invocable is called once, with
\* ParsedArguments whose values map is empty (has(key) is false for every
\* key).
C21_EmptyTokensEmptyValues ==
  (InvokeEnded /\ parsed.command \in Registered /\ segment = <<>>) =>
    /\ Len(Invocations) = 1
    /\ DOMAIN Invocations[1].args.argTable = {}
    /\ outcome = "invokeCommand threw" => parsed.what = HandlerFailed

\* C22: when the configuration declares an option named like the command,
\* every occurrence of the command-name token at a key position (the leading
\* token included) is processed as that option and its values are stored
\* under the command name; when no such option is declared, the command-name
\* token at a key position is skipped and nothing is stored under the
\* command name.
C22_CommandTokenAsOption ==
  ParsedAgainstConfig =>
    IF CommandConfig_has(config, config.name)
    THEN \A p \in KeyPositions :
           segment[p] = config.name =>
             /\ (~config.options[config.name].variadicSize
                   /\ FollowCount(p) < config.options[config.name].argSize) => ~parsed.ok
             /\ (parsed.ok /\ LastOccurrence(p)) =>
                  /\ config.name \in DOMAIN parsed.args.argTable
                  /\ parsed.args.argTable[config.name] = Join(Consumed(p))
    ELSE /\ parsed.ok => config.name \notin DOMAIN parsed.args.argTable
         /\ (\A p \in 1..Len(segment) : segment[p] = config.name) =>
              (parsed.ok /\ parsed.args.argTable = EmptyTable)

\* C22 witness: the configuration declares an option named like the command,
\* the segment opens with the command token followed by a value, and the
\* value was stored under the command name
C22_Witness ==
  /\ parsed.by = "CommandParser"
  /\ ParsedAgainstConfig
  /\ CommandConfig_has(config, config.name)
  /\ Len(segment) >= 2
  /\ segment[2] = VAL_V
  /\ parsed.ok
  /\ parsed.args.argTable[config.name] = VAL_V

\* the segment holds inline values only: no key follows the command token
\* (CommandCaller::invoke of the first revision gets the segment without the
\* command token)
InlineOnly ==
  IF parsed.by = "hpp"
  THEN segment /= <<>> /\ KeyPositions = {}
  ELSE /\ ParsedAgainstConfig
       /\ Len(segment) >= 2
       /\ segment[1] = config.name
       /\ \A p \in 2..Len(segment) : segment[p] /= config.name
       /\ KeyPositions \subseteq {1}

InlineValues == IF parsed.by = "hpp" THEN segment ELSE Tail(segment)

-----------------------------------------------------------------------------
(* Claims about the Statuses that Commander::run synthesizes *)

\* C24: every ERROR Status that run synthesizes names the offending command:
\* for a failure in the segment of command c its name is c, and for a token
\* sequence whose first token t is no registered command the "not a command"
\* Status carries t itself as its name (stated for the first run call of a
\* Commander).
C24_ErrorStatusNamesOffender ==
  (RunEnded /\ runs = 1) =>
    \A j \in 1..Len(Statuses) :
      Statuses[j].status.status = "ERROR" =>
        IF Statuses[j].status.msg = NotACommand
        THEN /\ Len(m_args) > 0
             /\ ~FirstIsCommand
             /\ Statuses[j].status.name = m_args[1]
        ELSE \E k \in 1..SegmentCount :
               /\ SegmentFails(k)
               /\ Statuses[j].status.name = SegmentOf(k)[1]

\* C25: every key of the values map the parser produces for a command is the
\* name of an option declared in the CommandConfig or the sentinel key
\* "unknown"; no raw value token and no command name that is not a declared
\* option becomes a key.
C25_KeysAreOptionsOrUnknown ==
  (parsed.by \in {"CommandArgs", "CommandParser"} /\ parsed.ok) =>
    DOMAIN parsed.args.argTable \subseteq (DOMAIN config.options \cup {UNKNOWN})

\* C25 witness: a segment with the command token, a value, an undeclared
\* option and a declared one was parsed; its keys are the declared option and
\* "unknown"
C25_Witness ==
  /\ parsed.by = "CommandParser"
  /\ segment = <<CMD1, VAL_V, OPT_P, OPT_O>>
  /\ DOMAIN config.options = {OPT_O}
  /\ parsed.ok
  /\ DOMAIN parsed.args.argTable = {OPT_O, UNKNOWN}

-----------------------------------------------------------------------------
(* Claims about the registry of the CommandParser-based Commander *)

\* the segments that m_parser.parse added in the last run call, in order
ParsedNow == Select(events, "parse")

\* C26: registry consistency (CommandParser-based revision): after any
\* sequence of appendCommand and removeCommand calls the names with a
\* registered handler are exactly the names the internal parser treats as
\* segment boundaries, and each name's parser configuration is its handler's
\* CommandConfig; so a later run segments the loaded sequence at the
\* registered names only (a removed name starts no segment) and invokes
\* handlers of registered names only.
C26_RegistryConsistent ==
  revision = "CommandParser" =>
    /\ DOMAIN m_parser.m_configs = Registered
    /\ \A n \in Registered : m_parser.m_configs[n] = m_commands[n].m_config
    /\ RunEnded =>
         /\ \A j \in 1..Len(Invocations) : Invocations[j].command \in Registered
         /\ \A j \in 1..Len(ParsedNow) :
              /\ j <= SegmentCount
              /\ ParsedNow[j].command =
                   IF SegmentOf(j)[1] \in Registered THEN SegmentOf(j)[1] ELSE UNKNOWN
         /\ (outcome = "returned" /\ Len(m_args) > 0) => Len(ParsedNow) = SegmentCount

\* C26 witness: a later run over a sequence that holds the name of a command
\* that an earlier run still dispatched and that was removed since
C26_Witness ==
  /\ revision = "CommandParser"
  /\ RunEnded
  /\ runs = 2
  /\ CMD2 \notin Registered
  /\ \E i \in 1..Len(m_args) : i > 1 /\ m_args[i] = CMD2
  /\ \E k \in 1..Len(m_parser.m_commands) : m_parser.m_commands[k].command = CMD2
  /\ Len(ParsedNow) = 1

\* C27: in every call of run a "not a command" Status can only be the first
\* Status delivered in that call: it arises only from tokens that precede the
\* first registered command name of the loaded sequence, and no "not a
\* command" Status follows a Status of a registered command's segment.
C27_NotACommandOnlyFirst ==
  RunEnded =>
    \A j \in 1..Len(Statuses) :
      Statuses[j].status.msg = NotACommand =>
        /\ j = 1
        /\ Len(m_args) > 0
        /\ ~FirstIsCommand

-----------------------------------------------------------------------------
(* Claims about loose tokens *)

\* the positions of the tokens that belong to no option: no key, not the
\* leading command token, and not among the first argSize tokens after a key
LoosePositions ==
  {q \in 1..Len(segment) :
     /\ q \notin KeyPositions
     /\ ~(q = 1 /\ segment[1] = config.name)
     /\ \A p \in KeyPositions : ~(p < q /\ q <= p + Len(Consumed(p)))}

LastLoose == CHOOSE q \in LoosePositions : \A r \in LoosePositions : r <= q

\* the position at which the last contiguous run of loose tokens starts
LastLooseStart ==
  CHOOSE s \in 1..LastLoose :
    /\ \A q \in s..LastLoose : q \in LoosePositions
    /\ s = 1 \/ (s - 1) \notin LoosePositions

LastLooseRun == SubSeq(segment, LastLooseStart, LastLoose)

\* C28: when tokens that belong to no option occur in more than one place
\* in a segment (before an option and again after that option's arity is
\* filled), the sentinel entry after parsing is the space-join of the last
\* contiguous run of such tokens only; the earlier loose tokens are
\* discarded without any error (stated for segments in which no option is
\* deficient and the command token does not occur again).
C28_LastLooseRunKept ==
  (/\ ParsedAgainstConfig
   /\ \A p \in 2..Len(segment) : segment[p] /= config.name
   /\ DeficientPositions = {}
   /\ LoosePositions /= {}
   /\ \E q \in LoosePositions : q < LastLooseStart) =>
    /\ parsed.ok
    /\ UNKNOWN \in DOMAIN parsed.args.argTable
    /\ parsed.args.argTable[UNKNOWN] = Join(LastLooseRun)

-----------------------------------------------------------------------------
(* The outer loops of the parsers and of the CommandArgs-based run, one     *)
(* iteration per step.  parsed holds the position of the loop: the index i  *)
(* (from 1), the index at which the last iteration was entered (0 before    *)
(* the first), and the table built so far.                                  *)

\* one iteration of the outer loop of CommandArgs::parse, part_000 revision
CommandArgs_parse_iter(m_config, args, i, m_argTable) ==
  IF args[i] = m_config.name /\ ~CommandConfig_has(m_config, args[i])
  THEN [ok |-> TRUE, i |-> i + 1, argTable |-> m_argTable]
  ELSE
    LET isProperty == CommandConfig_has(m_config, args[i])
        key == IF isProperty THEN args[i] ELSE unk_opt.name
        j == IF isProperty THEN i + 1 ELSE i
        option == IF CommandConfig_has(m_config, key) THEN m_config.options[key] ELSE unk_opt
        c == ConsumeValues(m_config, args, j, option.argSize, 0, <<>>)
        val == IF c.val /= <<>> THEN pop_back(c.val) ELSE c.val
    IN IF c.count < option.argSize /\ ~option.variadicSize
       THEN [ok |-> FALSE, what |-> NotEnoughArguments(key)]
       ELSE [ok |-> TRUE, i |-> c.i, argTable |-> Insert(m_argTable, key, val)]

\* one iteration of the outer loop of CommandArgs::parse, first revision
CommandArgs_parse_hpp_iter(m_config, args, i, m_argTable) ==
  LET isProperty == CommandConfig_has(m_config, args[i])
      key == IF isProperty THEN args[i] ELSE m_config.name
      j == IF isProperty THEN i + 1 ELSE i
  IN IF ~CommandConfig_has(m_config, key)
     THEN [ok |-> FALSE, what |-> KeyNotFound(key)]
     ELSE
       LET option == m_config.options[key]
           c == ConsumeValues_hpp(m_config, args, j, option.argSize, 0, <<>>)
       IN IF ~c.ok THEN c
          ELSE IF c.count < option.argSize /\ ~option.variadicSize
          THEN [ok |-> FALSE, what |-> NotEnoughArguments(key)]
          ELSE [ok |-> TRUE, i |-> c.i,
                argTable |-> Insert(m_argTable, key,
                                    IF c.val /= <<>> THEN pop_back(c.val) ELSE c.val)]

\* one iteration of the outer loop of CommandParser::parseCommand
parseCommand_iter(conf, command, args, i, m_argTable) ==
  IF args[i] = command /\ ~Ptr_has(conf, command)
  THEN [ok |-> TRUE, i |-> i + 1, argTable |-> m_argTable]
  ELSE
    LET isKey == Ptr_has(conf, args[i])
        option == IF isKey THEN conf.options[args[i]] ELSE unk_opt
        j == IF isKey THEN i + 1 ELSE i
        c == ConsumeValues(conf, args, j, option.argSize, 0, <<>>)
        val == IF c.val /= <<>> THEN pop_back(c.val) ELSE c.val
    IN IF c.count < option.argSize /\ ~option.variadicSize
       THEN [ok |-> FALSE, what |-> NotEnoughArguments(option.name)]
       ELSE [ok |-> TRUE, i |-> c.i, argTable |-> Insert(m_argTable, option.name, val)]

\* one iteration of the outer loop of CommandParser::parse: one segment is
\* cut off and parsed
CommandParser_parse_iter(m_configs, args, i) ==
  LET isCmd == hasConfig(m_configs, args[i])
      command == IF isCmd THEN args[i] ELSE UNKNOWN
      j == IF isCmd THEN i + 1 ELSE i
      e == SegmentEnd(m_configs, args, j)
      r == parseCommand(m_configs, command, <<command>> \o SubSeq(args, j, e - 1))
  IN IF ~r.ok THEN [ok |-> FALSE, what |-> r.what]
     ELSE [ok |-> TRUE, i |-> e, argTable |-> r.args.argTable]

\* one iteration of the for loop of the CommandArgs-based Commander::run: a
\* segment is dispatched; an exception, or a token that is no command, ends
\* the loop with an ERROR Status
Commander_run_args_iter(args, commands, i) ==
  IF isCommand(commands, args[i])
  THEN LET last == SegmentLast(commands, args, i)
           cargs == CommandCaller_invoke_args(commands[args[i]].m_config,
                                              <<args[i]>> \o SubSeq(args, i + 1, last))
       IN IF ~cargs.ok THEN [ok |-> FALSE, what |-> cargs.what]
          ELSE IF Callback(commands[args[i]].m_callback, cargs.args).threw
          THEN [ok |-> FALSE, what |-> HandlerFailed]
          ELSE [ok |-> TRUE, i |-> last + 1, argTable |-> cargs.args.argTable]
  ELSE [ok |-> FALSE, what |-> NotACommand]

StepLoops ==
  {"CommandArgs::parse", "CommandArgs::parse (first revision)",
   "CommandParser::parseCommand", "CommandParser::parse", "Commander::run"}

StepTokens == {CMD1, OPT_O, VAL_V}

StepSegments == SeqsUpTo(StepTokens, MaxSegLen)

\* the configurations of the stepped loops: argSize 0 included, for the
\* option named "unknown" too
StepConfigPool ==
  { CommandConfig(CMD1, o @@ u @@ c) :
      o \in {EmptyTable, OneOption(OPT_O, 0, FALSE), OneOption(OPT_O, 1, FALSE)},
      u \in {EmptyTable} \cup {OneOption(UNKNOWN, k, v) : k \in 0..MaxArity, v \in BOOLEAN},
      c \in {EmptyTable, OneOption(CMD1, 1, FALSE)} }

\* the loop is about to test its condition for the first time
LoopStart(by) ==
  [by |-> by, status |-> "running", i |-> 1, entered |-> 0,
   argTable |-> EmptyTable, what |-> <<>>]

\* parseCommand is private: CommandParser::parse passes it the command name
\* followed by tokens that are no command name.  The handlers that the
\* stepped run dispatches to have configurations whose parse returns.
StepInit ==
  /\ CommanderIdle
  /\ config \in StepConfigPool
  /\ segment \in StepSegments
  /\ parsed \in {LoopStart(by) : by \in StepLoops}
  /\ parsed.by = "CommandParser::parseCommand" =>
       /\ Len(segment) > 0
       /\ segment[1] = config.name
       /\ \A p \in 2..Len(segment) : segment[p] /= config.name
  /\ parsed.by = "Commander::run" => ~CommandConfig_has(config, UNKNOWN)

\* the loop condition i < args.size() is false: the loop ends
LoopExit == parsed' = [parsed EXCEPT !.status = "returned"]

\* one iteration ran from index parsed.i: it threw (or broke off with an
\* ERROR Status), or it left the index at r.i
LoopIterated(r) ==
  parsed' = IF r.ok
            THEN [parsed EXCEPT !.i = r.i, !.entered = parsed.i, !.argTable = r.argTable]
            ELSE [parsed EXCEPT !.status = "error", !.entered = parsed.i, !.what = r.what]

StepArgs ==
  /\ parsed.by = "CommandArgs::parse"
  /\ parsed.status = "running"
  /\ IF parsed.i > Len(segment) THEN LoopExit
     ELSE \E r \in {CommandArgs_parse_iter(config, segment, parsed.i, parsed.argTable)} :
            LoopIterated(r)
  /\ UNCHANGED <<config, segment>>
  /\ UNCHANGED commanderVars

StepHpp ==
  /\ parsed.by = "CommandArgs::parse (first revision)"
  /\ parsed.status = "running"
  /\ IF parsed.i > Len(segment) THEN LoopExit
     ELSE \E r \in {CommandArgs_parse_hpp_iter(config, segment, parsed.i, parsed.argTable)} :
            LoopIterated(r)
  /\ UNCHANGED <<config, segment>>
  /\ UNCHANGED commanderVars

StepParseCommand ==
  /\ parsed.by = "CommandParser::parseCommand"
  /\ parsed.status = "running"
  /\ IF parsed.i > Len(segment) THEN LoopExit
     ELSE \E r \in {parseCommand_iter(config, config.name, segment, parsed.i, parsed.argTable)} :
            LoopIterated(r)
  /\ UNCHANGED <<config, segment>>
  /\ UNCHANGED commanderVars

StepParser ==
  /\ parsed.by = "CommandParser::parse"
  /\ parsed.status = "running"
  /\ IF parsed.i > Len(segment) THEN LoopExit
     ELSE \E r \in {CommandParser_parse_iter(config.name :> config, segment, parsed.i)} :
            LoopIterated(r)
  /\ UNCHANGED <<config, segment>>
  /\ UNCHANGED commanderVars

StepRun ==
  /\ parsed.by = "Commander::run"
  /\ parsed.status = "running"
  /\ IF parsed.i > Len(segment) THEN LoopExit
     ELSE \E r \in {Commander_run_args_iter(segment, config.name :> CommandCaller(config, "ok"),
                                            parsed.i)} :
            LoopIterated(r)
  /\ UNCHANGED <<config, segment>>
  /\ UNCHANGED commanderVars

StepNext == StepArgs \/ StepHpp \/ StepParseCommand \/ StepParser \/ StepRun

SpecSteps == StepInit /\ [][StepNext]_vars

\* C29: each iteration of the outer loop of CommandArgs::parse,
\* CommandParser::parseCommand, CommandParser::parse and Commander::run
\* either consumes at least one token (the index strictly increases and
\* never exceeds the sequence length) or ends the loop with an error, for
\* every CommandConfig, options with argSize 0 included.
C29_EveryIterationConsumes ==
  (parsed.by \in StepLoops /\ parsed.entered > 0) =>
    \/ parsed.status = "error"
    \/ parsed.entered < parsed.i /\ parsed.i <= Len(segment) + 1

-----------------------------------------------------------------------------
(* A CommandParser used on its own: configurations are appended, token      *)
(* sequences are parsed, and the parsed commands are queried by name        *)
(* (part_000:832-844, 870-877).  m_parser is the parser; parsed holds the   *)
(* last query and its result.                                               *)

\* CommandParser::command(name): the first parsed command of that name, or
\* the exception "Out of range"
CommandParser_command(m_cmds, name) ==
  LET found == {k \in 1..Len(m_cmds) : m_cmds[k].command = name}
  IN IF found = {} THEN [ok |-> FALSE, what |-> OutOfRange]
     ELSE [ok |-> TRUE, args |-> m_cmds[CHOOSE k \in found : \A l \in found : k <= l]]

\* CommandParser::hasCommand(name): return find_if(...) == m_commands.end()
CommandParser_hasCommand(m_cmds, name) ==
  {k \in 1..Len(m_cmds) : m_cmds[k].command = name} = {}

QueryNames == {CMD1, CMD2, OPT_O, UNKNOWN}

QueryInit ==
  /\ CommanderIdle
  /\ HarnessIdle

QueryAppendConfig ==
  /\ \E caller \in CallerPool : m_parser' = appendConfig(m_parser, caller.m_config)
  /\ parsed' = NotParsed
  /\ UNCHANGED <<revision, m_args, m_commands, m_handler, host, events, outcome, runs>>
  /\ UNCHANGED <<config, segment>>

\* CommandParser::parse(args); a throw of parseCommand leaves the commands
\* parsed before it in the parser
QueryParse ==
  /\ runs < MaxRuns
  /\ \E args \in ArgVecs : m_parser' = CommandParser_parse(m_parser, args).parser
  /\ runs' = runs + 1
  /\ parsed' = NotParsed
  /\ UNCHANGED <<revision, m_args, m_commands, m_handler, host, events, outcome>>
  /\ UNCHANGED <<config, segment>>

HasCommand ==
  /\ \E name \in QueryNames :
       parsed' = [by |-> "hasCommand", name |-> name,
                  value |-> CommandParser_hasCommand(m_parser.m_commands, name)]
  /\ UNCHANGED commanderVars
  /\ UNCHANGED <<config, segment>>

CommandByName ==
  /\ \E name \in QueryNames :
       parsed' = [by |-> "command", name |-> name] @@
                 CommandParser_command(m_parser.m_commands, name)
  /\ UNCHANGED commanderVars
  /\ UNCHANGED <<config, segment>>

QueryNext == QueryAppendConfig \/ QueryParse \/ HasCommand \/ CommandByName

SpecQuery == QueryInit /\ [][QueryNext]_vars

\* C30: CommandParser::hasCommand(name) returns true exactly when commands()
\* contains a parsed command whose command() equals name, i.e. exactly when
\* command(name) would succeed rather than fail with "Out of range".
C30_HasCommandIsPresence ==
  parsed.by = "hasCommand" =>
    /\ parsed.value <=>
         \E k \in 1..Len(m_parser.m_commands) : m_parser.m_commands[k].command = parsed.name
    /\ parsed.value <=> CommandParser_command(m_parser.m_commands, parsed.name).ok

=============================================================================
